---- MODULE Spec2Model ----
(***************************************************************************)
(* State-machine model of casadi::Sqpmethod::solve (sqpmethod.cpp).        *)
(*                                                                         *)
(* All vectors are sequences; doubles are exact rationals <<num, den>>     *)
(* with den > 0 in lowest terms.  The NLP is the one-variable problem      *)
(*   minimize (x-1)^2   s.t.  lbx <= x <= ubx,  lbg <= x^2 <= ubg          *)
(* (the constraint is present when ng = 1), the QP solver is a black box   *)
(* that answers with one of QPResults.                                     *)
(***************************************************************************)
EXTENDS Integers, Sequences, FiniteSets, TLC

(* ------------------------------ bounds -------------------------------- *)
\* largest max_iter option explored
MaxIter == 2
\* largest min_iter option explored
MaxMinIter == 1
\* largest max_iter_ls option explored
MaxIterLs == 2
\* largest merit_memory option explored
MaxMem == 2
\* largest lbfgs_memory option explored
MaxLbfgs == 2
\* the step length t underflows to 0 below 2^-TBits
TBits == 2

\* largest absolute value of a Hessian entry in the regularization runs
MaxAbsH == 1
\* largest number of forward or adjoint directions asked of evaluateD, and
\* largest number of directions the called function takes per evaluation
MaxDir == 3
\* line-search counts are kept exactly up to LsCap
LsCap == MaxIterLs + 2
\* evaluations of the called function are counted and logged up to EvalCap
EvalCap == MaxDir + 1

(* --------------------------- double arithmetic ------------------------ *)
(* Operators that use an argument more than once bind it through a         *)
(* singleton set, so that the argument is evaluated once per application.  *)
Abs(n0) == CHOOSE r \in { IF n < 0 THEN -n ELSE n : n \in {n0} } : TRUE

RECURSIVE GCD(_, _)
GCD(a0, b0) ==
  CHOOSE r \in { IF b = 0 THEN a ELSE GCD(b, a % b) : a \in {a0}, b \in {b0} } :
    TRUE

Norm(n0, d0) ==
  CHOOSE r \in { <<n \div g, d \div g>> :
                 g \in { GCD(Abs(n), d) : n \in {n0}, d \in {d0} },
                 n \in {n0}, d \in {d0} } : TRUE

R(n) == <<n, 1>>

Zero == R(0)

One == R(1)

LCM(a0, b0) ==
  CHOOSE r \in { (a \div GCD(a, b)) * b : a \in {a0}, b \in {b0} } : TRUE

RAdd(a0, b0) ==
  CHOOSE r \in { Norm(a[1] * (l \div a[2]) + b[1] * (l \div b[2]), l) :
                 l \in { LCM(a[2], b[2]) : a \in {a0}, b \in {b0} },
                 a \in {a0}, b \in {b0} } : TRUE

RNeg(a0) == CHOOSE r \in { <<-a[1], a[2]>> : a \in {a0} } : TRUE

RSub(a, b) == RAdd(a, RNeg(b))

RMul(a0, b0) ==
  CHOOSE r \in { Norm(a[1] * b[1], a[2] * b[2]) : a \in {a0}, b \in {b0} } :
    TRUE

RLe(a0, b0) ==
  CHOOSE r \in { a[1] * (l \div a[2]) <= b[1] * (l \div b[2]) :
                 l \in { LCM(a[2], b[2]) : a \in {a0}, b \in {b0} },
                 a \in {a0}, b \in {b0} } : TRUE

RLt(a, b) == ~RLe(b, a)

RAbs(a0) == CHOOSE r \in { <<Abs(a[1]), a[2]>> : a \in {a0} } : TRUE

\* std::fmax
fmax(a0, b0) ==
  CHOOSE r \in { IF RLe(a, b) THEN b ELSE a : a \in {a0}, b \in {b0} } : TRUE

\* std::fmin
fmin(a0, b0) ==
  CHOOSE r \in { IF RLe(a, b) THEN a ELSE b : a \in {a0}, b \in {b0} } : TRUE

RECURSIVE Pow2(_)
Pow2(k) == IF k = 0 THEN 1 ELSE 2 * Pow2(k - 1)

\* smallest positive step length the arithmetic can hold
TMin == <<1, Pow2(TBits)>>

\* product of two step-length factors, flushed to zero on underflow
TMul(a, b) ==
  CHOOSE r \in { IF RLt(p, TMin) THEN Zero ELSE p : p \in {RMul(a, b)} } : TRUE

(* ----------------------------- runtime helpers ------------------------ *)
\* casadi_axpy: y += a*x
casadi_axpy(a0, x0_, y0) ==
  CHOOSE r \in { [i \in DOMAIN y |-> RAdd(y[i], RMul(a, x[i]))] :
                 a \in {a0}, x \in {x0_}, y \in {y0} } : TRUE

\* casadi_scal: x *= a
casadi_scal(a0, x0_) ==
  CHOOSE r \in { [i \in DOMAIN x |-> RMul(a, x[i])] : a \in {a0}, x \in {x0_} } :
    TRUE

RECURSIVE SeqMax(_, _)
SeqMax(s0, acc0) ==
  CHOOSE r \in { IF s = <<>> THEN acc
                 ELSE SeqMax(Tail(s), fmax(acc, Head(s))) :
                 s \in {s0}, acc \in {acc0} } : TRUE

RECURSIVE SeqSum(_)
SeqSum(s0) ==
  CHOOSE r \in { IF s = <<>> THEN Zero ELSE RAdd(Head(s), SeqSum(Tail(s))) :
                 s \in {s0} } : TRUE

\* casadi_norm_inf: largest magnitude, 0 for an empty vector
casadi_norm_inf(x0_) ==
  CHOOSE r \in { SeqMax([i \in DOMAIN x |-> RAbs(x[i])], Zero) : x \in {x0_} } :
    TRUE

\* casadi_max_viol: largest bound violation, 0 for an empty vector
casadi_max_viol(x0_, lb0, ub0) ==
  CHOOSE r \in { SeqMax([i \in DOMAIN x |->
                           fmax(RSub(lb[i], x[i]), RSub(x[i], ub[i]))], Zero) :
                 x \in {x0_}, lb \in {lb0}, ub \in {ub0} } : TRUE

\* casadi_dot
casadi_dot(x0_, y0) ==
  CHOOSE r \in { SeqSum([i \in DOMAIN x |-> RMul(x[i], y[i])]) :
                 x \in {x0_}, y \in {y0} } : TRUE

\* casadi_mv with tr = true for the ng-by-1 Jacobian: y += J^T * v
casadi_mv_tr(J, v, y) == <<RAdd(y[1], casadi_dot(J, v))>>

(* ------------------------------ options ------------------------------- *)
\* c1 option (Armijo coefficient)
c1_ == <<1, 4>>

\* beta option (backtracking factor)
beta_ == <<1, 2>>

\* tol_pr option
tol_pr_ == <<1, 4>>

\* tol_du option
tol_du_ == <<1, 4>>

\* min_step_size option
min_step_size_ == <<1, 4>>

(* ------------------------------ the NLP ------------------------------- *)
\* objective (x-1)^2
nlp_f(x) ==
  CHOOSE r \in { RMul(d, d) : d \in {RSub(x[1], One)} } : TRUE

\* constraint x^2, present when n = 1
nlp_g(n, x) ==
  IF n = 0 THEN <<>>
  ELSE CHOOSE r \in { <<RMul(v, v)>> : v \in {x[1]} } : TRUE

\* gradient of the objective
nlp_grad_f(x) == <<RMul(R(2), RSub(x[1], One))>>

\* Jacobian of the constraint (nonzeros of Asp)
nlp_jac_g(n, x) == IF n = 0 THEN <<>> ELSE <<RMul(R(2), x[1])>>

\* Hessian of the Lagrangian lam_f*f + lam_g*g (nonzeros of Hsp)
nlp_hess_l(n, x, lam_f, lam_g) ==
  <<RAdd(RMul(R(2), lam_f), IF n = 0 THEN Zero ELSE RMul(R(2), lam_g[1]))>>

\* answers of the QP solver: <<dx, lam_x, lam_a>>
QPResults == { <<0, 0, 0>>, <<-1, 0, 0>>, <<1, 1, -2>> }

\* thresholds above which nlp_fg cannot be evaluated
FgFailAbove == { R(-100), <<3, 2>>, R(100) }

\* outcomes of one callback invocation
CallbackOutcomes == { "zero", "nonzero", "exception", "interrupt" }


\* sparsity pattern of the 1-by-1 Hessian in compressed-column form
Hsp_ == [ncol |-> 1, colind |-> <<0, 1>>, row |-> <<0>>]

(* ------------------------------- state -------------------------------- *)
VARIABLES
  \* options fixed by init()
  max_iter_, min_iter_, max_iter_ls_, merit_memsize_, exact_hessian_,
  regularize_, lbfgs_memory_, ng_, has_callback,
  iteration_callback_ignore_errors_,
  \* the problem: point above which nlp_fg fails, inputs of the solve
  fg_fail_above, x0, lam_g0, lam_x0, lbx, ubx, lbg, ubg,
  \* SqpmethodMemory
  xk, x_cand, x_old, mu, mu_x, gk, gk_cand, gf, Jk, Bk, gLag, gLag_old,
  dx, qp_DUAL_X, qp_DUAL_A, qp_LBX, qp_UBX, qp_LBA, qp_UBA,
  sigma, merit_mem, reg, fk, return_status, iter_count,
  \* result slots
  out_f, out_x, out_lam_g, out_lam_x, out_g,
  \* locals of solve()
  iter, ls_iter, ls_success, t, L1dir, fk_cand,
  \* position in solve()
  pc,
  \* history: QP solves of this solve, outcome of the last callback call
  nqp, cb_out,
  \* result slots that are present (non-null)
  present,
  \* history: calls made in this solve, the evaluation that failed, the
  \* arguments of the last callback call, the record fields written so far
  ncall, last_err, cb_args, written,
  \* history: largest magnitude of a QP dual returned in this solve
  dual_hi,
  \* a Hessian pattern and values under regularization on their own
  rg_sp, rg_H0, rg_H, rg_reg, rg_pc,
  \* EvaluationMX::evaluateD: sizes of fsens and aseed, directions the
  \* function takes per evaluation, locals of evaluateD
  nfdir, nadir, max_nfdir, max_nadir, offset_nfdir, offset_nadir,
  fcn_evaluated,
  \* its arguments: arg[0] and res[0] (null or not, value), seeds and
  \* sensitivity targets per direction, directions whose target is null
  arg_ok, res_ok, res, fseed, fsens, aseed, asens, fsens_null, asens_null,
  \* the called function: input, seeds and sensitivities per slot, output
  fcn_input, fcn_fwdSeed, fcn_adjSeed, fcn_fwdSens, fcn_adjSens, fcn_output,
  \* position in evaluateD
  ev_pc,
  \* history: evaluations made, batches passed, evaluations made when the
  \* output was read, per direction the times it was seeded and retrieved,
  \* the adjoint seeds and targets as they were on entry
  n_eval, batches, res_read_at, fset, fget, aset, aadd, aseed0, asens0

options == <<max_iter_, min_iter_, max_iter_ls_, merit_memsize_,
             exact_hessian_, regularize_, lbfgs_memory_, ng_, has_callback,
             iteration_callback_ignore_errors_>>

inputs == <<fg_fail_above, x0, lam_g0, lam_x0, lbx, ubx, lbg, ubg, present>>

duals == <<mu, mu_x>>

points == <<xk, x_cand, x_old>>

derivs == <<gk, gf, Jk, fk, gLag>>

hess == <<Bk, reg, gLag_old>>

qpout == <<dx, qp_DUAL_X, qp_DUAL_A>>

qpin == <<qp_LBX, qp_UBX, qp_LBA, qp_UBA>>

merit == <<sigma, merit_mem, L1dir>>

lsvars == <<ls_iter, ls_success, t, gk_cand, fk_cand>>

results == <<return_status, iter_count, out_f, out_x, out_lam_g, out_lam_x,
             out_g>>

ghost == <<ncall, last_err, cb_args, written, dual_hi>>

gersh == <<rg_sp, rg_H0, rg_H, rg_reg, rg_pc>>

\* everything solve() works on
solvevars == <<options, inputs, duals, points, derivs, hess, qpout, qpin,
               merit, lsvars, results, iter, pc, nqp, cb_out, ghost>>

evalin == <<nfdir, nadir, max_nfdir, max_nadir, arg_ok, res_ok, fseed,
            fsens_null, asens_null, aseed0, asens0>>

evalfcn == <<fcn_input, fcn_fwdSeed, fcn_adjSeed, fcn_fwdSens, fcn_adjSens,
             fcn_output>>

evalhist == <<n_eval, batches, res_read_at, fset, fget, aset, aadd>>

evald == <<evalin, offset_nfdir, offset_nadir, fcn_evaluated, res, fsens,
           aseed, asens, evalfcn, ev_pc, evalhist>>

\* what solve() does not touch
aside == <<gersh, evald>>

vars == <<solvevars, aside>>

\* the result slots f, x, lam_g, lam_x, g
Slots == { "f", "x", "lam_g", "lam_x", "g" }

\* callback arguments before any call
NoArgs == [f |-> Zero, x |-> <<>>, lam_g |-> <<>>, lam_x |-> <<>>, g |-> <<>>,
           arg0 |-> Zero]

\* call counters at the start of a solve
NoCalls == [jac |-> 0, grad |-> 0, hess |-> 0, cb |-> 0]

\* a vector of n zeros
Zeros(n) == [i \in 1..n |-> Zero]

\* lbfgs_memory as explored by default (unused with the exact Hessian)
LbfgsDefault ==
  lbfgs_memory_ \in (IF exact_hessian_ THEN {MaxLbfgs} ELSE 1..MaxLbfgs)

\* state after init() and set_work(): options read (all but min_iter and
\* lbfgs_memory), work vector laid out
InitBody ==
  /\ max_iter_ \in -1..MaxIter
  /\ max_iter_ls_ \in 0..MaxIterLs
  /\ merit_memsize_ \in 0..MaxMem
  /\ exact_hessian_ \in BOOLEAN
  /\ regularize_ \in (IF exact_hessian_ THEN BOOLEAN ELSE {FALSE})
  /\ ng_ \in {0, 1}
  /\ has_callback \in BOOLEAN
  /\ iteration_callback_ignore_errors_ \in
       (IF has_callback THEN BOOLEAN ELSE {FALSE})
  /\ fg_fail_above \in (IF max_iter_ls_ > 0 THEN FgFailAbove ELSE {R(100)})
  /\ x0 \in {<<R(1)>>, <<R(2)>>}
  /\ lam_g0 = Zeros(ng_)
  /\ lam_x0 = <<Zero>>
  /\ lbx = <<Zero>> /\ ubx = <<R(2)>>
  /\ lbg = Zeros(ng_) /\ ubg = [i \in 1..ng_ |-> One]
  /\ xk = <<Zero>> /\ x_cand = <<Zero>> /\ x_old = <<Zero>>
  /\ mu = Zeros(ng_) /\ mu_x = <<Zero>>
  /\ gk = Zeros(ng_) /\ gk_cand = Zeros(ng_)
  /\ gf = <<Zero>> /\ Jk = Zeros(ng_)
  /\ Bk = [base |-> <<Zero>>, upd |-> <<>>]
  /\ gLag = <<Zero>> /\ gLag_old = <<Zero>>
  /\ dx \in {<<Zero>>, <<One>>}
  /\ qp_DUAL_X = <<Zero>> /\ qp_DUAL_A = Zeros(ng_)
  /\ qp_LBX = <<Zero>> /\ qp_UBX = <<Zero>>
  /\ qp_LBA = Zeros(ng_) /\ qp_UBA = Zeros(ng_)
  /\ sigma = Zero /\ merit_mem = <<>> /\ reg = Zero /\ fk = Zero
  /\ return_status = "" /\ iter_count = -1
  /\ out_f = Zero /\ out_x = <<Zero>> /\ out_lam_g = Zeros(ng_)
  /\ out_lam_x = <<Zero>> /\ out_g = Zeros(ng_)
  /\ iter = 0 /\ ls_iter = 0 /\ ls_success = TRUE /\ t = Zero
  /\ L1dir = Zero /\ fk_cand = Zero
  /\ pc = "start" /\ nqp = 0 /\ cb_out = "none"
  /\ ncall = NoCalls /\ last_err = "none" /\ cb_args = NoArgs /\ written = {}
  /\ dual_hi = Zero

\* no Hessian is regularized on its own during a solve
GershOff ==
  /\ rg_sp = Hsp_ /\ rg_H0 = <<Zero>> /\ rg_H = <<Zero>> /\ rg_reg = Zero
  /\ rg_pc = "off"

\* evaluateD is not running during a solve
EvalOff ==
  /\ nfdir = 0 /\ nadir = 0 /\ max_nfdir = 0 /\ max_nadir = 0
  /\ offset_nfdir = 0 /\ offset_nadir = 0 /\ fcn_evaluated = FALSE
  /\ arg_ok = FALSE /\ res_ok = FALSE /\ res = 0
  /\ fseed = <<>> /\ fsens = <<>> /\ aseed = <<>> /\ asens = <<>>
  /\ fsens_null = {} /\ asens_null = {}
  /\ fcn_input = 0 /\ fcn_fwdSeed = <<>> /\ fcn_adjSeed = <<>>
  /\ fcn_fwdSens = <<>> /\ fcn_adjSens = <<>> /\ fcn_output = 0
  /\ ev_pc = "off"
  /\ n_eval = 0 /\ batches = <<>> /\ res_read_at = <<>>
  /\ fset = <<>> /\ fget = <<>> /\ aset = <<>> /\ aadd = <<>>
  /\ aseed0 = <<>> /\ asens0 = <<>>

\* a solve with every result slot present
Init ==
  /\ InitBody /\ LbfgsDefault /\ GershOff /\ EvalOff
  /\ min_iter_ \in 0..MaxMinIter
  /\ present = Slots


(* ----------------------------- Hessian manager ------------------------ *)
\* Gershgorin bound of column cc (0-based), elements el..last (0-based)
RECURSIVE ColBound(_, _, _, _, _)
ColBound(sp, H, cc, el, last) ==
  IF el >= last THEN Zero
  ELSE RAdd(IF sp.row[el + 1] = cc THEN H[el + 1]
            ELSE RNeg(RAbs(H[el + 1])),
            ColBound(sp, H, cc, el + 1, last))

RECURSIVE RegParam(_, _, _, _)
RegParam(sp, H, cc, reg_param) ==
  IF cc >= sp.ncol THEN reg_param
  ELSE RegParam(sp, H, cc + 1,
                fmin(reg_param,
                     ColBound(sp, H, cc, sp.colind[cc + 1], sp.colind[cc + 2])))

\* Sqpmethod::getRegularization
getRegularization(sp, H) == RNeg(RegParam(sp, H, 0, Zero))

\* column (0-based) holding nonzero el (0-based)
ColOf(sp, el) ==
  CHOOSE cc \in 0..(sp.ncol - 1) :
    sp.colind[cc + 1] <= el /\ el < sp.colind[cc + 2]

\* Sqpmethod::regularize
regularize(sp, H, r) ==
  [e \in DOMAIN H |->
     IF sp.row[e] = ColOf(sp, e - 1) THEN RAdd(H[e], r) ELSE H[e]]

\* casadi_fill(Bk, nnz, 1.) followed by casadi_bfgs_reset: identity
casadi_bfgs_reset(sp) ==
  [base |-> [e \in DOMAIN sp.row |->
               IF sp.row[e] = ColOf(sp, e - 1) THEN One ELSE Zero],
   upd |-> <<>>]

\* casadi_bfgs: the secant update, kept as the list of its arguments
casadi_bfgs(B, x, xold, g, gold) ==
  [B EXCEPT !.upd = Append(@, <<x, xold, g, gold>>)]

\* mutant: the multipliers of the bounds are left out
LagGrad_NoBoundDual(n, gf_, J_, mu_, mux_) ==
  IF n > 0 THEN casadi_mv_tr(J_, mu_, gf_) ELSE gf_

\* gradient of the Lagrangian gf + J^T*mu + mu_x
LagGrad(n, gf_, J_, mu_, mux_) ==
  casadi_axpy(One, mux_,
              IF n > 0 THEN casadi_mv_tr(J_, mu_, gf_) ELSE gf_)

\* the evaluation that fails in this pass, if any
EvalErrors == { "none", "nlp_jac_g", "nlp_grad_f", "nlp_hess_l" }

\* an error can only come from a function that is called
Applicable(err) ==
  /\ err = "nlp_jac_g" => ng_ > 0
  /\ err = "nlp_hess_l" => exact_hessian_

\* exact Hessian at (x, lam), regularized when the option is set
\* returns <<Bk, reg>>
ExactHessian(x, lam, reg0) ==
  LET H == nlp_hess_l(ng_, x, One, lam)
      r == IF regularize_ THEN getRegularization(Hsp_, H) ELSE reg0
      Hr == IF regularize_ /\ RLt(Zero, r) THEN regularize(Hsp_, H, r) ELSE H
  IN  <<[base |-> Hr, upd |-> <<>>], r>>

(* ------------------------------ solve() ------------------------------- *)
\* mutant: the constraint functions are evaluated whatever ng is
JacCalled_Always == TRUE

\* if (ng_): nlp_jac_g is evaluated only when there are constraints
JacCalled == ng_ > 0

\* mutant: an error is only looked at after the whole pass
Reached_All(err, fn) == TRUE

\* the pass in which err fails gets as far as calling fn: casadi_error
\* throws at the first failing function, in the order jac, grad, hess
Reached(err, fn) ==
  IF fn = "nlp_jac_g" THEN TRUE
  ELSE IF fn = "nlp_grad_f" THEN err # "nlp_jac_g"
  ELSE err \notin { "nlp_jac_g", "nlp_grad_f" }

\* 1 when the call is made, 0 otherwise
Count(made) == IF made THEN 1 ELSE 0

\* mutant: a failed evaluation leaves through the end of solve()
Throw_Publish ==
  /\ return_status' = return_status
  /\ iter_count' = iter
  /\ out_f' = IF "f" \in present THEN fk' ELSE out_f
  /\ out_x' = IF "x" \in present THEN xk' ELSE out_x
  /\ out_lam_g' = IF "lam_g" \in present THEN mu' ELSE out_lam_g
  /\ out_lam_x' = IF "lam_x" \in present THEN mu_x' ELSE out_lam_x
  /\ out_g' = IF "g" \in present THEN gk' ELSE out_g

\* casadi_error throws: control leaves solve() without passing the
\* statements that store iter_count and the result slots
Throw == UNCHANGED results

\* start of solve() up to the main loop
SolveInit(err) ==
  /\ pc = "start"
  /\ Applicable(err)
  /\ xk' = x0
  /\ mu' = lam_g0
  /\ mu_x' = lam_x0
  /\ LET jac_ok == err # "nlp_jac_g"
         grad_run == Reached(err, "nlp_grad_f")
         grad_ok == grad_run /\ err # "nlp_grad_f"
         hess_run == Reached(err, "nlp_hess_l")
         hess_ok == hess_run /\ err # "nlp_hess_l"
         gf1 == IF grad_ok THEN nlp_grad_f(x0) ELSE gf
         Jk1 == IF JacCalled /\ jac_ok THEN nlp_jac_g(ng_, x0) ELSE Jk
         EH == ExactHessian(x0, lam_g0, Zero)
     IN  /\ ncall' = [jac |-> Count(JacCalled), grad |-> Count(grad_run),
                      hess |-> Count(exact_hessian_ /\ hess_run), cb |-> 0]
         /\ written' = {"xk", "mu", "mu_x"}
              \cup (IF JacCalled /\ jac_ok THEN {"gk", "Jk"} ELSE {})
              \cup (IF grad_ok THEN {"fk", "gf", "reg"} ELSE {})
              \cup (IF hess_ok THEN {"Bk", "gLag", "merit_mem", "sigma"}
                    ELSE {})
         /\ gk' = IF JacCalled /\ jac_ok THEN nlp_g(ng_, x0) ELSE gk
         /\ Jk' = Jk1
         /\ fk' = IF grad_ok THEN nlp_f(x0) ELSE fk
         /\ gf' = gf1
         /\ reg' = IF ~grad_ok THEN reg
                   ELSE IF exact_hessian_ /\ hess_ok THEN EH[2] ELSE Zero
         /\ Bk' = IF ~hess_ok THEN Bk
                  ELSE IF exact_hessian_ THEN EH[1]
                       ELSE casadi_bfgs_reset(Hsp_)
         /\ gLag' = IF hess_ok THEN LagGrad(ng_, gf1, Jk1, lam_g0, lam_x0)
                    ELSE gLag
         /\ iter' = IF hess_ok THEN 0 ELSE iter
         /\ ls_iter' = IF hess_ok THEN 0 ELSE ls_iter
         /\ ls_success' = IF hess_ok THEN TRUE ELSE ls_success
         /\ merit_mem' = IF hess_ok THEN <<>> ELSE merit_mem
         /\ sigma' = IF hess_ok THEN Zero ELSE sigma
         /\ t' = IF hess_ok THEN Zero ELSE t
         /\ pc' = IF hess_ok THEN "check" ELSE "fatal"
         /\ IF hess_ok THEN UNCHANGED results ELSE Throw
  /\ nqp' = 0
  /\ last_err' = err
  /\ dual_hi' = Zero
  /\ UNCHANGED <<options, inputs, x_cand, x_old, gk_cand, gLag_old, qpout,
                 qpin, L1dir, fk_cand, cb_out, cb_args, aside>>


\* mutant: a caught callback error never stops the solve
CallbackRet_Swallow(cb) == 0

\* value of ret after the callback call: the callback's own return value is
\* written through res[0], which is null, so ret keeps its initial 0 unless
\* an exception is caught and errors are not ignored
CallbackRet(cb) ==
  IF cb = "exception" /\ ~iteration_callback_ignore_errors_ THEN 1 ELSE 0

\* a result slot as the callback sees it: a null pointer is an empty input
SlotArg(name, buf) == IF name \in present THEN buf ELSE <<>>

\* the arguments handed to the callback: &m->fk and the result slots m->x,
\* m->lam_g, m->lam_x, m->g; entry 0 of the argument array is then pointed at
\* ret (kept here as arg0, next to the entry it replaces)
CallbackArgs ==
  [f |-> fk,
   x |-> SlotArg("x", out_x),
   lam_g |-> SlotArg("lam_g", out_lam_g),
   lam_x |-> SlotArg("lam_x", out_lam_x),
   g |-> SlotArg("g", out_g),
   arg0 |-> Zero]

\* mutant: the iteration limit is tested before convergence
StopTest_MaxIterFirst(it, pr_inf, gLag_norminf, dx_norminf) ==
  IF it >= max_iter_
  THEN "Maximum_Iterations_Exceeded"
  ELSE IF it >= min_iter_ /\ RLt(pr_inf, tol_pr_) /\ RLt(gLag_norminf, tol_du_)
  THEN "Solve_Succeeded"
  ELSE IF it >= 1 /\ it >= min_iter_ /\ RLe(dx_norminf, min_step_size_)
  THEN "Search_Direction_Becomes_Too_Small"
  ELSE ""

\* mutant: convergence is accepted before min_iter
StopTest_NoMinIter(it, pr_inf, gLag_norminf, dx_norminf) ==
  IF RLt(pr_inf, tol_pr_) /\ RLt(gLag_norminf, tol_du_)
  THEN "Solve_Succeeded"
  ELSE IF it >= max_iter_
  THEN "Maximum_Iterations_Exceeded"
  ELSE IF it >= 1 /\ it >= min_iter_ /\ RLe(dx_norminf, min_step_size_)
  THEN "Search_Direction_Becomes_Too_Small"
  ELSE ""

\* mutant: the iteration limit is tested with > instead of >=
StopTest_OffByOne(it, pr_inf, gLag_norminf, dx_norminf) ==
  IF it >= min_iter_ /\ RLt(pr_inf, tol_pr_) /\ RLt(gLag_norminf, tol_du_)
  THEN "Solve_Succeeded"
  ELSE IF it > max_iter_
  THEN "Maximum_Iterations_Exceeded"
  ELSE IF it >= 1 /\ it >= min_iter_ /\ RLe(dx_norminf, min_step_size_)
  THEN "Search_Direction_Becomes_Too_Small"
  ELSE ""

\* the stopping tests of one check point, in source order
\* ("" when none matches)
StopTest(it, pr_inf, gLag_norminf, dx_norminf) ==
  IF it >= min_iter_ /\ RLt(pr_inf, tol_pr_) /\ RLt(gLag_norminf, tol_du_)
  THEN "Solve_Succeeded"
  ELSE IF it >= max_iter_
  THEN "Maximum_Iterations_Exceeded"
  ELSE IF it >= 1 /\ it >= min_iter_ /\ RLe(dx_norminf, min_step_size_)
  THEN "Search_Direction_Becomes_Too_Small"
  ELSE ""

\* primal infeasibility of the current iterate
PrInf == fmax(casadi_max_viol(xk, lbx, ubx), casadi_max_viol(gk, lbg, ubg))

\* mutant: copying the results stops at the first absent slot
Finish_StopAtNull(status) ==
  /\ return_status' = status
  /\ iter_count' = iter
  /\ out_f' = IF "f" \in present THEN fk ELSE out_f
  /\ out_x' = IF {"f", "x"} \subseteq present THEN xk ELSE out_x
  /\ out_lam_g' = IF {"f", "x", "lam_g"} \subseteq present THEN mu
                  ELSE out_lam_g
  /\ out_lam_x' = IF {"f", "x", "lam_g", "lam_x"} \subseteq present THEN mu_x
                  ELSE out_lam_x
  /\ out_g' = IF present = Slots THEN gk ELSE out_g
  /\ pc' = "done"
  /\ UNCHANGED iter

\* leaving the main loop with a status: iter_count and the result slots that
\* are present
Finish(status) ==
  /\ return_status' = status
  /\ iter_count' = iter
  /\ out_f' = IF "f" \in present THEN fk ELSE out_f
  /\ out_x' = IF "x" \in present THEN xk ELSE out_x
  /\ out_lam_g' = IF "lam_g" \in present THEN mu ELSE out_lam_g
  /\ out_lam_x' = IF "lam_x" \in present THEN mu_x ELSE out_lam_x
  /\ out_g' = IF "g" \in present THEN gk ELSE out_g
  /\ pc' = "done"
  /\ UNCHANGED iter

\* top of the main loop: callback, stopping tests, iter++
CheckPoint(cb) ==
  /\ pc = "check"
  /\ cb = "none" <=> ~has_callback
  /\ cb_out' = cb
  /\ cb_args' = IF has_callback THEN CallbackArgs ELSE cb_args
  /\ ncall' = [ncall EXCEPT !.cb = @ + Count(has_callback)]
  /\ LET pr_inf == PrInf
         gLag_norminf == casadi_norm_inf(gLag)
         dx_norminf == casadi_norm_inf(dx)
         stop == StopTest(iter, pr_inf, gLag_norminf, dx_norminf)
     IN  IF cb = "interrupt"
         THEN /\ pc' = "interrupted"
              /\ UNCHANGED <<results, iter>>
         ELSE IF has_callback /\ CallbackRet(cb) # 0
         THEN Finish("User_Requested_Stop")
         ELSE IF stop # ""
         THEN Finish(stop)
         ELSE /\ iter' = iter + 1
              /\ pc' = "qp"
              /\ UNCHANGED results
  /\ UNCHANGED <<options, inputs, duals, points, derivs, hess, qpout, qpin,
                 merit, lsvars, nqp, last_err, written, dual_hi, aside>>

\* mutant: the previous sigma is forgotten
PenaltyUpdate_NoMax(s, dual_x, dual_a) ==
  fmax(RMul(<<101, 100>>, casadi_norm_inf(dual_x)),
       RMul(<<101, 100>>, casadi_norm_inf(dual_a)))

\* mutant: the duals of the constraints are left out
PenaltyUpdate_NoDualA(s, dual_x, dual_a) ==
  fmax(s, RMul(<<101, 100>>, casadi_norm_inf(dual_x)))

\* penalty parameter of the merit function after a QP solve
PenaltyUpdate(s, dual_x, dual_a) ==
  fmax(fmax(s, RMul(<<101, 100>>, casadi_norm_inf(dual_x))),
       RMul(<<101, 100>>, casadi_norm_inf(dual_a)))

\* mutant: the newest value is dropped instead of the oldest
MeritPush_PopBack(mem, v) ==
  LET m1 == Append(mem, v)
  IN  IF Len(m1) > merit_memsize_ THEN SubSeq(m1, 1, Len(m1) - 1) ELSE m1

\* mutant: the merit is recorded only when the line search is enabled
MeritPush_OnlyWithLs(mem, v) ==
  LET m1 == Append(mem, v)
  IN  IF max_iter_ls_ = 0 THEN mem
      ELSE IF Len(m1) > merit_memsize_ THEN Tail(m1) ELSE m1

\* std::deque push_back, then pop_front when over capacity
MeritPush(mem, v) ==
  LET m1 == Append(mem, v)
  IN  IF Len(m1) > merit_memsize_ THEN Tail(m1) ELSE m1

\* mutant: the QP gets the problem bounds as they are
Shift_None(b, x) == b

\* casadi_copy(b, n, qp_b); casadi_axpy(n, -1., x, qp_b): the bound b moved
\* to the linearization point x
Shift(b, x) == casadi_axpy(RNeg(One), x, b)

\* formulate and solve the QP, penalty parameter, merit bookkeeping
QPSolve(q) ==
  /\ pc = "qp"
  /\ qp_LBX' = Shift(lbx, xk)
  /\ qp_UBX' = Shift(ubx, xk)
  /\ qp_LBA' = Shift(lbg, gk)
  /\ qp_UBA' = Shift(ubg, gk)
  /\ dx' = <<R(q[1])>>
  /\ qp_DUAL_X' = <<R(q[2])>>
  /\ qp_DUAL_A' = [i \in 1..ng_ |-> R(q[3])]
  /\ sigma' = PenaltyUpdate(sigma, qp_DUAL_X', qp_DUAL_A')
  /\ LET l1_infeas == PrInf
         F_sens == casadi_dot(dx', gf)
         L1merit == RAdd(fk, RMul(sigma', l1_infeas))
     IN  /\ L1dir' = RSub(F_sens, RMul(sigma', l1_infeas))
         /\ merit_mem' = MeritPush(merit_mem, L1merit)
  /\ t' = One
  /\ ls_iter' = 0
  /\ ls_success' = TRUE
  /\ nqp' = nqp + 1
  /\ cb_out' = "none"
  /\ pc' = IF max_iter_ls_ > 0 THEN "ls" ELSE "full"
  /\ written' = written \cup {"dx", "sigma", "merit_mem"}
  /\ UNCHANGED <<options, inputs, duals, points, derivs, hess, gk_cand,
                 fk_cand, results, iter, ncall, last_err, cb_args, aside>>
  /\ dual_hi' = fmax(dual_hi, fmax(casadi_norm_inf(qp_DUAL_X'),
                                   casadi_norm_inf(qp_DUAL_A')))


\* ls_iter++; only equality with max_iter_ls_ is ever tested, so counts
\* beyond LsCap are folded back onto LsCap - 1 and LsCap (both > MaxIterLs)
LsCount(n) == IF n < LsCap THEN n + 1 ELSE LsCap - 1

\* what *max_element reads from an empty window
GarbageMerit == { R(-100), R(100) }

\* *max_element(merit_mem.begin(), merit_mem.end())
MeritMaxValues ==
  IF merit_mem = <<>> THEN GarbageMerit
  ELSE { SeqMax(Tail(merit_mem), Head(merit_mem)) }

\* nlp_fg cannot be evaluated at xc
FgFails(xc) == RLt(fg_fail_above, xc[1])

\* the Armijo test of a trial at xc with step length t
Armijo(xc, mm) ==
  LET l1_infeas == fmax(casadi_max_viol(xc, lbx, ubx),
                        casadi_max_viol(nlp_g(ng_, xc), lbg, ubg))
      L1merit_cand == RAdd(nlp_f(xc), RMul(sigma, l1_infeas))
  IN  RLe(L1merit_cand, RAdd(mm, RMul(RMul(t, c1_), L1dir)))

\* mutant: the multipliers are replaced by the QP duals whatever t is
DualBlend_Full(tt, old, dual) == dual

\* casadi_scal(n, 1-t, old); casadi_axpy(n, t, dual, old)
DualBlend(tt, old, dual) ==
  casadi_axpy(tt, dual, casadi_scal(RSub(One, tt), old))

\* mutant: the step length is shortened twice
Backtrack_Twice(tt) == TMul(beta_, TMul(beta_, tt))

\* mutant: the step length is not shortened
Backtrack_Keep(tt) == tt

\* t = beta_ * t
Backtrack(tt) == TMul(beta_, tt)

\* one pass of the line-search loop; when it leaves the loop, the dual and
\* primal update that follows it
LsTrial(mm) ==
  /\ pc = "ls"
  /\ mm \in MeritMaxValues
  /\ LET xc == casadi_axpy(t, dx, xk)
         failed == FgFails(xc)
         n == LsCount(ls_iter)
         accepted == ~failed /\ Armijo(xc, mm)
         exhausted == ~failed /\ ~accepted /\ n = max_iter_ls_
         leave == accepted \/ exhausted
     IN  /\ x_cand' = xc
         /\ ls_iter' = n
         /\ fk_cand' = IF failed THEN fk_cand ELSE nlp_f(xc)
         /\ gk_cand' = IF failed THEN gk_cand ELSE nlp_g(ng_, xc)
         /\ ls_success' = IF exhausted THEN FALSE ELSE ls_success
         /\ t' = IF leave THEN t ELSE Backtrack(t)
         /\ written' = written
              \cup (IF leave THEN {"x_old", "xk", "mu", "mu_x"} ELSE {})
         /\ IF leave
            THEN /\ mu' = DualBlend(t, mu, qp_DUAL_A)
                 /\ mu_x' = DualBlend(t, mu_x, qp_DUAL_X)
                 /\ x_old' = xk
                 /\ xk' = xc
                 /\ pc' = "reeval"
            ELSE UNCHANGED <<mu, mu_x, x_old, xk, pc>>
  /\ UNCHANGED <<options, inputs, derivs, hess, qpout, qpin, merit, results,
                 iter, nqp, cb_out, ncall, last_err, cb_args, dual_hi,
                 aside>>

\* reading the maximum of an empty window may also end the process
LsTrialCrash ==
  /\ pc = "ls"
  /\ merit_mem = <<>>
  /\ LET xc == casadi_axpy(t, dx, xk)
     IN  /\ ~FgFails(xc)
         /\ x_cand' = xc
         /\ fk_cand' = nlp_f(xc)
         /\ gk_cand' = nlp_g(ng_, xc)
  /\ ls_iter' = LsCount(ls_iter)
  /\ pc' = "crash"
  /\ UNCHANGED <<options, inputs, duals, xk, x_old, derivs, hess, qpout, qpin,
                 merit, ls_success, t, results, iter, nqp, cb_out, ghost,
                 aside>>

\* mutant: the full step leaves the multipliers as they were
FullStep_KeepDuals ==
  /\ pc = "full"
  /\ x_old' = xk
  /\ xk' = casadi_axpy(One, dx, xk)
  /\ pc' = "reeval"
  /\ written' = written \cup {"x_old", "xk"}
  /\ UNCHANGED <<options, inputs, duals, x_cand, derivs, hess, qpout, qpin,
                 merit, lsvars, results, iter, nqp, cb_out, ncall, last_err,
                 dual_hi,
                 cb_args, aside>>

\* line search disabled: full step
FullStep ==
  /\ pc = "full"
  /\ mu' = qp_DUAL_A
  /\ mu_x' = qp_DUAL_X
  /\ x_old' = xk
  /\ xk' = casadi_axpy(One, dx, xk)
  /\ pc' = "reeval"
  /\ written' = written \cup {"x_old", "xk", "mu", "mu_x"}
  /\ UNCHANGED <<options, inputs, x_cand, derivs, hess, qpout, qpin, merit,
                 lsvars, results, iter, nqp, cb_out, ncall, last_err, cb_args,
                 dual_hi,
                 aside>>

\* mutant: gLag_old is the Lagrangian gradient as it was before the step
OldLagGrad_Keep == gLag

\* gLag_old: gradient of the Lagrangian with gf and Jk still those of the old
\* point, mu and mu_x already those of the new one
OldLagGrad == LagGrad(ng_, gf, Jk, mu, mu_x)

\* mutant: the approximation is restarted in every iteration
RestartDue_Always(it) == TRUE

\* mutant: the approximation is never restarted
RestartDue_Never(it) == FALSE

\* if (iter % lbfgs_memory_ == 0): the approximation is restarted
RestartDue(it) == it % lbfgs_memory_ = 0

\* after the step: gLag_old, Jacobian, gradient, gLag, Hessian
ReEval(err) ==
  /\ pc = "reeval"
  /\ Applicable(err)
  /\ LET jac_ok == err # "nlp_jac_g"
         grad_run == Reached(err, "nlp_grad_f")
         grad_ok == grad_run /\ err # "nlp_grad_f"
         hess_run == Reached(err, "nlp_hess_l")
         hess_ok == hess_run /\ err # "nlp_hess_l"
         gLag_old1 == IF ~exact_hessian_ THEN OldLagGrad ELSE gLag_old
         gf1 == IF grad_ok THEN nlp_grad_f(xk) ELSE gf
         Jk1 == IF JacCalled /\ jac_ok THEN nlp_jac_g(ng_, xk) ELSE Jk
         gLag1 == IF grad_ok THEN LagGrad(ng_, gf1, Jk1, mu, mu_x) ELSE gLag
         EH == ExactHessian(xk, mu, reg)
     IN  /\ ncall' = [ncall EXCEPT
                        !.jac = @ + Count(JacCalled),
                        !.grad = @ + Count(grad_run),
                        !.hess = @ + Count(exact_hessian_ /\ hess_run)]
         /\ written' = written
              \cup (IF exact_hessian_ THEN {} ELSE {"gLag_old"})
              \cup (IF JacCalled /\ jac_ok THEN {"gk", "Jk"} ELSE {})
              \cup (IF grad_ok THEN {"fk", "gf", "gLag"} ELSE {})
              \cup (IF hess_ok THEN {"Bk"} ELSE {})
              \cup (IF hess_ok /\ exact_hessian_ THEN {"reg"} ELSE {})
         /\ gLag_old' = gLag_old1
         /\ gk' = IF JacCalled /\ jac_ok THEN nlp_g(ng_, xk) ELSE gk
         /\ Jk' = Jk1
         /\ fk' = IF grad_ok THEN nlp_f(xk) ELSE fk
         /\ gf' = gf1
         /\ gLag' = gLag1
         /\ Bk' = IF ~hess_ok THEN Bk
                  ELSE IF exact_hessian_ THEN EH[1]
                  ELSE casadi_bfgs(IF RestartDue(iter)
                                   THEN casadi_bfgs_reset(Hsp_) ELSE Bk,
                                   xk, x_old, gLag1, gLag_old1)
         /\ reg' = IF hess_ok /\ exact_hessian_ THEN EH[2] ELSE reg
         /\ pc' = IF hess_ok THEN "check" ELSE "fatal"
         /\ IF hess_ok THEN UNCHANGED results ELSE Throw
  /\ last_err' = err
  /\ UNCHANGED <<options, inputs, duals, points, qpout, qpin, merit, lsvars,
                 iter, nqp, cb_out, cb_args, aside, dual_hi>>

Next ==
  \/ \E err \in EvalErrors : SolveInit(err)
  \/ \E cb \in CallbackOutcomes \cup {"none"} : CheckPoint(cb)
  \/ \E q \in QPResults : QPSolve(q)
  \/ \E mm \in MeritMaxValues : LsTrial(mm)
  \/ LsTrialCrash
  \/ FullStep
  \/ \E err \in EvalErrors : ReEval(err)

Spec == Init /\ [][Next]_vars

\* the solves followed for termination: no callback, exact Hessian, given
\* iteration limits, every line-search setting and every failure threshold
InitLive ==
  /\ Init
  /\ max_iter_ = MaxIter /\ min_iter_ = 0
  /\ exact_hessian_ /\ ~regularize_ /\ ~has_callback
  /\ x0 = <<R(2)>> /\ dx = <<Zero>>

\* solve() is sequential code: whenever it can take a step, it does
FairSpec == InitLive /\ [][Next]_vars /\ WF_vars(Next)

\* quasi-Newton solves that are made to run MaxIter iterations, with every
\* restart period up to MaxIter + 1 (a period longer than the solve never
\* restarts); no callback, every other option and input as in Init
InitBfgs ==
  /\ InitBody /\ GershOff /\ EvalOff
  /\ ~exact_hessian_ /\ lbfgs_memory_ \in 1..(MaxIter + 1)
  /\ min_iter_ = MaxIter /\ max_iter_ = MaxIter
  /\ ~has_callback
  /\ present = Slots

SpecBfgs == InitBfgs /\ [][Next]_vars

\* which result slots the caller asks for: all, none, all but one
SlotChoices == { Slots, {} } \cup { Slots \ {sl} : sl \in Slots }

\* solves with absent result slots: exact Hessian, no regularization,
\* min_iter = 0, every other option and input as in Init
InitSlots ==
  /\ InitBody /\ LbfgsDefault /\ GershOff /\ EvalOff
  /\ present \in SlotChoices
  /\ exact_hessian_ /\ ~regularize_ /\ min_iter_ = 0 /\ dx = <<Zero>>

SpecSlots == InitSlots /\ [][Next]_vars

\* fields of the iterate record that the code at position p reads before
\* it writes them itself
ReadsAt(p) ==
  LET con == IF ng_ > 0 THEN {"gk"} ELSE {}
      jac == IF ng_ > 0 THEN {"Jk"} ELSE {}
  IN  IF p = "check" THEN {"xk", "gLag", "dx"} \cup con
      ELSE IF p = "qp"
      THEN {"xk", "Bk", "gf", "dx", "sigma", "fk", "merit_mem"}
             \cup con \cup jac
      ELSE IF p = "ls"
      THEN {"xk", "dx", "mu", "mu_x", "sigma", "merit_mem"}
      ELSE IF p = "full" THEN {"xk", "dx"}
      ELSE IF p = "reeval"
      THEN {"xk", "mu", "mu_x"}
             \cup (IF exact_hessian_ THEN {}
                   ELSE {"gf", "x_old", "Bk"} \cup jac)
      ELSE {}

(* ------------------- regularization on its own ----------------------- *)
\* Hessian patterns in compressed column storage: 1x1; 2x2 dense; 2x2
\* diagonal; 2x2 with the entries (0,0), (1,0), (0,1) as for x^2 + x*y;
\* 2x2 with the entries (1,0), (0,1) only, as for the objective x*y
GershPatterns ==
  { Hsp_,
    [ncol |-> 2, colind |-> <<0, 2, 4>>, row |-> <<0, 1, 0, 1>>],
    [ncol |-> 2, colind |-> <<0, 1, 2>>, row |-> <<0, 1>>],
    [ncol |-> 2, colind |-> <<0, 2, 3>>, row |-> <<0, 1, 0>>],
    [ncol |-> 2, colind |-> <<0, 1, 2>>, row |-> <<1, 0>>] }

\* values a nonzero can take
GershValues == { R(v) : v \in (-MaxAbsH)..MaxAbsH }

\* one pattern with one value vector, handed to the regularization
InitGersh ==
  /\ InitBody /\ LbfgsDefault
  /\ max_iter_ = 0 /\ min_iter_ = 0 /\ max_iter_ls_ = 0 /\ merit_memsize_ = 1
  /\ exact_hessian_ /\ regularize_ /\ ng_ = 0 /\ ~has_callback
  /\ x0 = <<R(1)>> /\ dx = <<Zero>>
  /\ present = Slots
  /\ rg_sp \in GershPatterns
  /\ rg_H0 \in [1..Len(rg_sp.row) -> GershValues]
  /\ rg_H = rg_H0
  /\ rg_reg = Zero
  /\ rg_pc = "in"
  /\ EvalOff

\* m->reg = getRegularization(m->Bk);
\* if (m->reg > 0) regularize(m->Bk, m->reg);
Regularization ==
  /\ rg_pc = "in"
  /\ rg_reg' = getRegularization(rg_sp, rg_H)
  /\ rg_H' = IF RLt(Zero, rg_reg') THEN regularize(rg_sp, rg_H, rg_reg')
             ELSE rg_H
  /\ rg_pc' = "out"
  /\ UNCHANGED <<rg_sp, rg_H0, solvevars, evald>>

NextGersh == Regularization

SpecGersh == InitGersh /\ [][NextGersh]_vars

(* ------------------- EvaluationMX::evaluateD -------------------------- *)
(* The node has one input and one output (num_in = num_out = 1); values   *)
(* are integers.  Directions are numbered from 1, offsets count from 0    *)
(* as in the code.                                                         *)
\* std::min
min(a, b) == IF b < a THEN b ELSE a

\* the called function as a black box: its output, and its forward and
\* adjoint sensitivity for one seed
fcn_value(x) == 3 * x + 1

fcn_sens(seed) == 3 * seed

\* fcn_.evaluate(nf, na): output from the input, sensitivities of the
\* first nf forward and na adjoint slots from the seeds in these slots
fcn_evaluate(input, fwdSeed, adjSeed, fwdSens, adjSens, nf, na) ==
  [output |-> fcn_value(input),
   fwdSens |-> [d \in 1..Len(fwdSens) |->
                  IF d <= nf THEN fcn_sens(fwdSeed[d]) ELSE fwdSens[d]],
   adjSens |-> [d \in 1..Len(adjSens) |->
                  IF d <= na THEN fcn_sens(adjSeed[d]) ELSE adjSens[d]]]

\* number of directions in the current batch
BatchSize(n, offset, cap) == min(n - offset, cap)

\* mutant: the adjoint sensitivity replaces the content of its target
Accumulate_Overwrite(target, sens) == sens

\* a->sparsity().add(a->ptr(), adjSens.ptr(), adjSens.sparsity()): the
\* sensitivity is added to what the target holds
Accumulate(target, sens) == target + sens

\* while (!fcn_evaluated || offset_nfdir < nfdir || offset_nadir < nadir)
MoreToDo == ~fcn_evaluated \/ offset_nfdir < nfdir \/ offset_nadir < nadir

\* v with 1 added at the positions lo+1 .. lo+n that are not in skip
Bump(v, lo, n, skip) ==
  [k \in 1..Len(v) |->
     IF k > lo /\ k <= lo + n /\ k \notin skip THEN v[k] + 1 ELSE v[k]]

\* a call of evaluateD: numbers of directions asked and taken per
\* evaluation, null or non-null arguments, seeds and targets
InitEval ==
  /\ InitBody /\ LbfgsDefault /\ GershOff
  /\ max_iter_ = 0 /\ min_iter_ = 0 /\ max_iter_ls_ = 0 /\ merit_memsize_ = 1
  /\ exact_hessian_ /\ regularize_ /\ ng_ = 0 /\ ~has_callback
  /\ x0 = <<R(1)>> /\ dx = <<Zero>>
  /\ present = Slots
  /\ nfdir \in 0..MaxDir /\ nadir \in 0..MaxDir
  /\ max_nfdir \in 0..MaxDir /\ max_nadir \in 0..MaxDir
  /\ offset_nfdir = 0 /\ offset_nadir = 0 /\ fcn_evaluated = FALSE
  /\ arg_ok \in BOOLEAN /\ res_ok \in BOOLEAN /\ res = 0
  /\ fseed = [d \in 1..nfdir |-> d]
  /\ fsens = [d \in 1..nfdir |-> 0]
  /\ aseed = [d \in 1..nadir |-> 10 + d]
  /\ asens = [d \in 1..nadir |-> 100]
  /\ fsens_null \in SUBSET ({1} \cap 1..nfdir)
  /\ asens_null \in SUBSET ({1} \cap 1..nadir)
  /\ fcn_input = 7
  /\ fcn_fwdSeed = [d \in 1..max_nfdir |-> 0]
  /\ fcn_adjSeed = [d \in 1..max_nadir |-> 0]
  /\ fcn_fwdSens = [d \in 1..max_nfdir |-> 0]
  /\ fcn_adjSens = [d \in 1..max_nadir |-> 0]
  /\ fcn_output = 0
  /\ ev_pc = "entry"
  /\ n_eval = 0 /\ batches = <<>> /\ res_read_at = <<>>
  /\ fset = [d \in 1..nfdir |-> 0] /\ fget = [d \in 1..nfdir |-> 0]
  /\ aset = [d \in 1..nadir |-> 0] /\ aadd = [d \in 1..nadir |-> 0]
  /\ aseed0 = aseed /\ asens0 = asens

\* entry of evaluateD up to the loop: locals, inputs passed to the function
EvalEntry ==
  /\ ev_pc = "entry"
  /\ offset_nfdir' = 0 /\ offset_nadir' = 0
  /\ fcn_evaluated' = FALSE
  /\ fcn_input' = IF arg_ok THEN 2 ELSE 0
  /\ ev_pc' = "loop"
  /\ UNCHANGED <<solvevars, gersh, evalin, res, fsens, aseed, asens,
                 fcn_fwdSeed, fcn_adjSeed, fcn_fwdSens, fcn_adjSens,
                 fcn_output, evalhist>>

\* one pass of the loop: seeds of the batch, evaluation, output after the
\* first evaluation, sensitivities of the batch, offsets
EvalBatch ==
  /\ ev_pc = "loop"
  /\ MoreToDo
  /\ LET nfdir_f_batch == BatchSize(nfdir, offset_nfdir, max_nfdir)
         nadir_f_batch == BatchSize(nadir, offset_nadir, max_nadir)
         fwdSeed == [d \in 1..max_nfdir |->
                       IF d <= nfdir_f_batch THEN fseed[offset_nfdir + d]
                       ELSE fcn_fwdSeed[d]]
         adjSeed == [d \in 1..max_nadir |->
                       IF d <= nadir_f_batch THEN aseed[offset_nadir + d]
                       ELSE fcn_adjSeed[d]]
         out == fcn_evaluate(fcn_input, fwdSeed, adjSeed, fcn_fwdSens,
                             fcn_adjSens, nfdir_f_batch, nadir_f_batch)
     IN  /\ fcn_fwdSeed' = fwdSeed
         /\ fcn_adjSeed' = adjSeed
         /\ fcn_output' = out.output
         /\ fcn_fwdSens' = out.fwdSens
         /\ fcn_adjSens' = out.adjSens
         /\ res' = IF ~fcn_evaluated /\ res_ok THEN out.output ELSE res
         /\ fsens' = [k \in 1..nfdir |->
                        IF /\ k > offset_nfdir
                           /\ k <= offset_nfdir + nfdir_f_batch
                           /\ k \notin fsens_null
                        THEN out.fwdSens[k - offset_nfdir] ELSE fsens[k]]
         /\ asens' = [k \in 1..nadir |->
                        IF /\ k > offset_nadir
                           /\ k <= offset_nadir + nadir_f_batch
                           /\ k \notin asens_null
                        THEN Accumulate(asens[k],
                                        out.adjSens[k - offset_nadir])
                        ELSE asens[k]]
         /\ offset_nfdir' = offset_nfdir + nfdir_f_batch
         /\ offset_nadir' = offset_nadir + nadir_f_batch
         /\ batches' = IF Len(batches) < EvalCap
                       THEN Append(batches,
                                   [foff |-> offset_nfdir,
                                    fn |-> nfdir_f_batch,
                                    aoff |-> offset_nadir,
                                    an |-> nadir_f_batch])
                       ELSE batches
         /\ res_read_at' = IF ~fcn_evaluated /\ res_ok
                           THEN Append(res_read_at, min(n_eval + 1, EvalCap))
                           ELSE res_read_at
         /\ fset' = Bump(fset, offset_nfdir, nfdir_f_batch, {})
         /\ fget' = Bump(fget, offset_nfdir, nfdir_f_batch, fsens_null)
         /\ aset' = Bump(aset, offset_nadir, nadir_f_batch, {})
         /\ aadd' = Bump(aadd, offset_nadir, nadir_f_batch, asens_null)
  /\ fcn_evaluated' = TRUE
  /\ n_eval' = min(n_eval + 1, EvalCap)
  /\ UNCHANGED <<solvevars, gersh, evalin, aseed, fcn_input, ev_pc>>

\* the loop is left: clearVector(aseed), return
EvalReturn ==
  /\ ev_pc = "loop"
  /\ ~MoreToDo
  /\ aseed' = [d \in 1..nadir |-> 0]
  /\ ev_pc' = "done"
  /\ UNCHANGED <<solvevars, gersh, evalin, offset_nfdir, offset_nadir,
                 fcn_evaluated, res, fsens, asens, evalfcn, evalhist>>

NextEval ==
  \/ EvalEntry
  \/ EvalBatch
  \/ EvalReturn

SpecEval == InitEval /\ [][NextEval]_vars

\* evaluateD runs on: a pass that is due is eventually made
FairEval == InitEval /\ [][NextEval]_vars /\ WF_vars(NextEval)

\* the ways solve() ends: normal return, error thrown by a main-path
\* evaluation, rethrown interrupt, process ended by the invalid read
Exits == { "done", "fatal", "interrupted", "crash" }

TypeOK ==
  /\ pc \in { "start", "check", "qp", "ls", "full", "reeval" } \cup Exits
  /\ iter \in 0..(MaxIter + 1)
  /\ ls_iter \in 0..LsCap
  /\ Len(merit_mem) <= MaxMem + 1


(* ------------------------------- claims ------------------------------- *)
Max(a, b) == IF a >= b THEN a ELSE b

Min(a, b) == IF a <= b THEN a ELSE b

\* the iterate is converged at the tolerances
Converged ==
  RLt(PrInf, tol_pr_) /\ RLt(casadi_norm_inf(gLag), tol_du_)

\* the last step is at most min_step_size
SmallStep == RLe(casadi_norm_inf(dx), min_step_size_)

\* C1: at a check point where the callback does not abort, the status is
\* Solve_Succeeded if iter >= min_iter and the point is converged, otherwise
\* Maximum_Iterations_Exceeded if iter >= max_iter, otherwise
\* Search_Direction_Becomes_Too_Small if iter >= 1, iter >= min_iter and the
\* step is small, otherwise a new iteration starts (iter is incremented).
C1_StopOrder ==
  /\ (pc = "done" /\ return_status # "User_Requested_Stop") =>
       IF iter >= min_iter_ /\ Converged
       THEN return_status = "Solve_Succeeded"
       ELSE IF iter >= max_iter_
       THEN return_status = "Maximum_Iterations_Exceeded"
       ELSE /\ iter >= 1 /\ iter >= min_iter_ /\ SmallStep
            /\ return_status = "Search_Direction_Becomes_Too_Small"
  /\ pc = "qp" =>
       /\ ~(iter - 1 >= min_iter_ /\ Converged)
       /\ ~(iter - 1 >= max_iter_)
       /\ ~(iter - 1 >= 1 /\ iter - 1 >= min_iter_ /\ SmallStep)

\* a converged point at iter >= max_iter is reported as Solve_Succeeded
C1_Witness ==
  /\ pc = "done" /\ return_status = "Solve_Succeeded"
  /\ iter >= max_iter_ /\ iter >= 1 /\ Converged

\* C2: a callback that returns non-zero stops the solve at that check point
\* with User_Requested_Stop; one that returns 0 lets the solve go on to the
\* convergence checks.
C2_CallbackStops ==
  /\ cb_out = "nonzero" =>
       pc = "done" /\ return_status = "User_Requested_Stop"
  /\ cb_out = "zero" =>
       /\ pc \in {"done", "qp"}
       /\ pc = "done" => return_status # "User_Requested_Stop"

\* C3: Solve_Succeeded is never the status when the iteration counter at
\* termination is smaller than min_iter.
C3_MinIter ==
  (pc = "done" /\ return_status = "Solve_Succeeded") =>
    (iter >= min_iter_ /\ iter_count >= min_iter_)

\* success reported with min_iter >= 1, after a converged check point at
\* iter = 0 was passed over
C3_Witness ==
  /\ pc = "done" /\ return_status = "Solve_Succeeded"
  /\ min_iter_ >= 1 /\ x0 = <<One>> /\ iter_count = min_iter_

\* C4: iter never exceeds max(0, max_iter), no more QPs than that are
\* solved, and the reported iter_count is the number of QP solves.
C4_MaxIter ==
  /\ iter <= Max(0, max_iter_)
  /\ nqp <= Max(0, max_iter_)
  /\ pc = "done" => iter_count = nqp

\* a solve that used its whole iteration budget
C4_Witness ==
  /\ pc = "done" /\ max_iter_ = MaxIter /\ iter_count = MaxIter /\ nqp = MaxIter

\* C5: every solve eventually leaves the main loop.
C5_Terminates == <>(pc \in Exits)

\* C6: with max_iter_ls > 0, no more than max_iter_ls trials are made in one
\* line search.
C6_TrialsBounded == max_iter_ls_ > 0 => ls_iter <= max_iter_ls_

\* C7: sigma is 0 when the main loop starts and never decreases afterwards.
C7_SigmaMonotone ==
  [][/\ pc = "start" /\ pc' = "check" => sigma' = Zero
     /\ pc # "start" => RLe(sigma, sigma')]_vars

\* sigma kept from an earlier iteration although the QP duals of the current
\* one are all zero
C7_Witness ==
  /\ nqp = 2 /\ pc \in {"ls", "full"}
  /\ qp_DUAL_X = <<Zero>> /\ qp_DUAL_A = Zeros(ng_)
  /\ sigma = <<101, 50>>

C9_FullStep ==
  [][max_iter_ls_ = 0 =>
       /\ pc' # "ls"
       /\ UNCHANGED <<x_cand, fk_cand, gk_cand>>
       /\ pc = "qp" => (pc' = "full" /\ t' = One)
       /\ pc = "full" =>
            /\ xk' = casadi_axpy(One, dx, xk)
            /\ x_old' = xk
            /\ mu' = qp_DUAL_A
            /\ mu_x' = qp_DUAL_X]_vars

\* a full step with a non-zero direction and non-zero duals has been taken
C9_Witness ==
  /\ max_iter_ls_ = 0 /\ pc = "reeval" /\ ng_ = 1
  /\ dx = <<One>> /\ mu = <<R(-2)>> /\ mu_x = <<One>>
  /\ xk = <<R(3)>> /\ x_old = <<R(2)>>

\* C10 as stated: with max_iter_ls = 0 an iteration leaves merit_mem
\* unchanged.
C10_NoMeritBookkeeping ==
  [][(max_iter_ls_ = 0 /\ pc \in {"qp", "full", "reeval"}) =>
       merit_mem' = merit_mem]_vars

\* C10 amended: with max_iter_ls = 0 an iteration still pushes the L1 merit
\* of the current point onto merit_mem (dropping the oldest value beyond
\* merit_memory); the window is changed by nothing else in the iteration.
C10_MeritStillPushed ==
  [][max_iter_ls_ = 0 =>
       /\ pc = "qp" =>
            LET all == Append(merit_mem, RAdd(fk, RMul(sigma', PrInf)))
            IN  merit_mem' =
                  IF Len(all) > merit_memsize_ THEN Tail(all) ELSE all
       /\ pc \in {"check", "full", "reeval"} => merit_mem' = merit_mem]_vars

\* two merits recorded by a solve that never ran a line search
C10_Witness ==
  /\ max_iter_ls_ = 0 /\ pc = "done" /\ Len(merit_mem) = 2
  /\ merit_mem[1] # merit_mem[2]

\* C11: a line-search trial whose candidate cannot be evaluated does not end
\* the solve: the trial is counted (ls_iter + 1), the step length becomes
\* beta * t, xk and the multipliers stay as they are, and the search goes on.
C11_FailedTrial ==
  [][(pc = "ls" /\ ls_iter < LsCap /\ FgFails(casadi_axpy(t, dx, xk))) =>
       /\ pc' = "ls"
       /\ ls_iter' = ls_iter + 1
       /\ t' = TMul(beta_, t)
       /\ xk' = xk /\ mu' = mu /\ mu_x' = mu_x]_vars

\* the first trial of a search has failed and the step has been halved
C11_Witness ==
  /\ pc = "ls" /\ ls_iter = 1 /\ t = <<1, 2>>
  /\ x_cand = casadi_axpy(One, dx, xk) /\ FgFails(x_cand)

\* C12: a failing main-path evaluation (nlp_jac_g, nlp_grad_f, nlp_hess_l,
\* at initialization or after a step) ends the solve at once: each function
\* is called at most once in the pass, none after the failing one, no QP is
\* solved, no callback is called, and nothing runs after the error.
C12_ErrorAborts ==
  [][/\ pc # "fatal"
     /\ pc \in {"start", "reeval"} =>
          LET dj == ncall'.jac - ncall.jac
              dg == ncall'.grad - ncall.grad
              dh == ncall'.hess - ncall.hess
          IN  /\ dj <= 1 /\ dg <= 1 /\ dh <= 1
              /\ last_err' # "none" <=> pc' = "fatal"
              /\ last_err' = "nlp_jac_g" =>
                   /\ dj = 1 /\ dg = 0 /\ dh = 0
                   /\ fk' = fk /\ gf' = gf /\ Bk' = Bk
              /\ last_err' = "nlp_grad_f" =>
                   /\ dg = 1 /\ dh = 0 /\ Bk' = Bk
              /\ last_err' = "nlp_hess_l" => dh = 1 /\ Bk' = Bk
              /\ ncall'.cb = ncall.cb /\ nqp' = nqp]_vars

\* the constraint Jacobian failed after a step
C12_Witness ==
  /\ pc = "fatal" /\ last_err = "nlp_jac_g" /\ nqp >= 1
  /\ ncall.jac = 2 /\ ncall.grad = 1

\* C13 as stated: whatever the callback throws, solve() does not end by an
\* exception: it goes on as if the callback returned 0 when errors are
\* ignored and stops with User_Requested_Stop otherwise.
C13_NoCallbackErrorEscapes ==
  cb_out \in {"exception", "interrupt"} =>
    /\ pc # "interrupted"
    /\ IF iteration_callback_ignore_errors_
       THEN pc = "done" => return_status # "User_Requested_Stop"
       ELSE pc = "done" /\ return_status = "User_Requested_Stop"

\* C13 amended: a KeyboardInterruptException thrown by the callback is
\* rethrown and leaves solve() before any result is written; every other
\* exception of the callback is caught: when errors are ignored the check
\* point goes on to the stopping tests as if the callback returned 0,
\* otherwise the solve stops with User_Requested_Stop. An interrupt is the
\* only callback exception that leaves solve().
C13_OnlyInterruptEscapes ==
  /\ cb_out = "exception" =>
       IF iteration_callback_ignore_errors_
       THEN \/ /\ pc = "done"
               /\ return_status =
                    StopTest(iter, PrInf, casadi_norm_inf(gLag),
                             casadi_norm_inf(dx))
               /\ return_status # ""
            \/ /\ pc = "qp"
               /\ StopTest(iter - 1, PrInf, casadi_norm_inf(gLag),
                           casadi_norm_inf(dx)) = ""
       ELSE pc = "done" /\ return_status = "User_Requested_Stop"
  /\ cb_out = "interrupt" =>
       pc = "interrupted" /\ return_status = "" /\ iter_count = -1
  /\ pc = "interrupted" => cb_out = "interrupt"

\* a callback error that is not ignored has stopped the solve after a step
C13_Witness ==
  /\ cb_out = "exception" /\ ~iteration_callback_ignore_errors_
  /\ pc = "done" /\ return_status = "User_Requested_Stop" /\ iter >= 1

\* C14: when the loop ends with one of the four statuses, every result slot
\* that is present holds the final value (f = fk, x = xk, lam_g = mu,
\* lam_x = mu_x, g = gk), the statistics hold the status and
\* iter_count = iter, and an absent slot is left alone whatever the others.
C14_Results ==
  pc = "done" =>
    /\ return_status \in { "Solve_Succeeded", "Maximum_Iterations_Exceeded",
                           "Search_Direction_Becomes_Too_Small",
                           "User_Requested_Stop" }
    /\ iter_count = iter
    /\ "f" \in present => out_f = fk
    /\ "x" \in present => out_x = xk
    /\ "lam_g" \in present => out_lam_g = mu
    /\ "lam_x" \in present => out_lam_x = mu_x
    /\ "g" \in present => out_g = gk
    /\ "f" \notin present => out_f = Zero
    /\ "x" \notin present => out_x = <<Zero>>
    /\ "lam_g" \notin present => out_lam_g = Zeros(ng_)
    /\ "lam_x" \notin present => out_lam_x = <<Zero>>
    /\ "g" \notin present => out_g = Zeros(ng_)

\* a solve without the f slot has returned non-zero x, multipliers and g
C14_Witness ==
  /\ pc = "done" /\ present = Slots \ {"f"} /\ ng_ = 1 /\ iter >= 1
  /\ fk # Zero /\ out_f = Zero
  /\ out_x = xk /\ out_g = gk /\ gk # <<Zero>>
  /\ out_lam_g = mu /\ mu # <<Zero>> /\ out_lam_x = mu_x /\ mu_x # <<Zero>>

\* C15: without constraints (ng = 0) nlp_jac_g is never called, and at every
\* check point the constraint part of the primal infeasibility is 0, so the
\* primal infeasibility is the bound violation of xk.
C15_NoConstraints ==
  ng_ = 0 =>
    /\ ncall.jac = 0
    /\ pc = "check" =>
         /\ casadi_max_viol(gk, lbg, ubg) = Zero
         /\ PrInf = casadi_max_viol(xk, lbx, ubx)

\* an unconstrained solve is at a check point outside the bounds
C15_Witness ==
  /\ ng_ = 0 /\ pc = "check" /\ iter >= 1 /\ ncall.grad = 2
  /\ RLt(Zero, PrInf)

\* smallest Gershgorin column bound of H on the pattern sp
GershMin(sp, H) ==
  LET b(cc) == ColBound(sp, H, cc, sp.colind[cc + 1], sp.colind[cc + 2])
  IN  CHOOSE v \in { b(cc) : cc \in 0..(sp.ncol - 1) } :
        \A cc \in 0..(sp.ncol - 1) : RLe(v, b(cc))

\* C16: for every pattern and value vector, if getRegularization(H) = reg > 0
\* then after regularize(H, reg) the smallest Gershgorin column bound is
\* exactly 0 and getRegularization of the result is 0; if the smallest bound
\* is already nonnegative, getRegularization(H) = 0 and H is left unchanged.
C16_Regularized ==
  rg_pc = "out" =>
    /\ rg_reg = getRegularization(rg_sp, rg_H0)
    /\ RLt(Zero, rg_reg) =>
         /\ GershMin(rg_sp, rg_H) = Zero
         /\ getRegularization(rg_sp, rg_H) = Zero
    /\ RLe(Zero, GershMin(rg_sp, rg_H0)) =>
         /\ rg_reg = Zero
         /\ rg_H = rg_H0

\* C17 as stated: in quasi-Newton mode, once exactly lbfgs_memory iterations
\* are done, the Bk handed to the QP solver is the reset matrix, without any
\* secant update in it.
C17_ResetAtRestart ==
  (~exact_hessian_ /\ pc = "qp" /\ iter - 1 = lbfgs_memory_) =>
    Bk = casadi_bfgs_reset(Hsp_)

\* C17 amended: in quasi-Newton mode, after an iteration k >= 1 that is a
\* multiple of lbfgs_memory, Bk (at the check point, and handed to the QP
\* solver of iteration k + 1) is the reset matrix with exactly one secant
\* update applied to it, the update of iteration k itself; no earlier update
\* is left in it.
C17_RestartKeepsLastUpdate ==
  LET k == IF pc = "qp" THEN iter - 1 ELSE iter
  IN  (~exact_hessian_ /\ pc \in {"check", "qp", "done"}
         /\ k >= 1 /\ k % lbfgs_memory_ = 0) =>
        /\ Bk.base = casadi_bfgs_reset(Hsp_).base
        /\ Bk.upd = << <<xk, x_old, gLag, gLag_old>> >>

\* the QP of iteration 2 is about to be solved with a matrix restarted in
\* iteration 1
C17_Witness ==
  /\ ~exact_hessian_ /\ lbfgs_memory_ = 1 /\ pc = "qp" /\ iter = 2
  /\ Len(Bk.upd) = 1 /\ xk # x_old

\* C18: every callback call receives the current iterate: f = fk, x = xk,
\* lam_g = mu, lam_x = mu_x, g = gk.
C18_CallbackSeesIterate ==
  cb_out # "none" =>
    /\ cb_args.f = fk
    /\ cb_args.x = xk
    /\ cb_args.lam_g = mu
    /\ cb_args.lam_x = mu_x
    /\ cb_args.g = gk

\* C19: every field of the iterate record that solve() reads has been
\* written earlier in the same solve, so nothing left by an earlier solve
\* is used.
C19_ReadsWritten ==
  pc \in {"check", "qp", "ls", "full", "reeval"} => ReadsAt(pc) \subseteq written

\* the maximum of a non-empty merit window
WindowMax ==
  CHOOSE v \in { merit_mem[i] : i \in 1..Len(merit_mem) } :
    \A i \in 1..Len(merit_mem) : RLe(merit_mem[i], v)

\* C20: with max_iter_ls > 0, a trial whose candidate is evaluated ends the
\* search exactly when the Armijo test against the maximum of the merit
\* window holds or the trial is number max_iter_ls; ls_success is false
\* afterwards exactly when the search ended on trial max_iter_ls with the
\* Armijo test failing; the candidate of the last trial becomes xk.
\* (No maximum exists for an empty window, so no Armijo test holds then.)
C20_LineSearchExit ==
  [][(pc = "ls" /\ max_iter_ls_ > 0 /\ ls_iter < LsCap
        /\ ~FgFails(casadi_axpy(t, dx, xk))) =>
       LET xc == casadi_axpy(t, dx, xk)
           l1 == fmax(casadi_max_viol(xc, lbx, ubx),
                      casadi_max_viol(nlp_g(ng_, xc), lbg, ubg))
           ok == /\ merit_mem # <<>>
                 /\ RLe(RAdd(nlp_f(xc), RMul(sigma, l1)),
                        RAdd(WindowMax, RMul(RMul(t, c1_), L1dir)))
           last == ls_iter + 1 = max_iter_ls_
       IN  /\ ls_success
           /\ pc' = "reeval" <=> (ok \/ last)
           /\ pc' # "reeval" => pc' = "ls" /\ ls_success' /\ xk' = xk
           /\ pc' = "reeval" =>
                /\ xk' = xc
                /\ ls_success' <=> ~(last /\ ~ok)]_vars

\* C21: for every merit_memory, at every line-search trial the merit window
\* is non-empty, its newest entry is the L1 merit of xk with the sigma of
\* this iteration (fk + sigma * infeasibility), and the maximum of the
\* window is at least that value.
C21_WindowDefined ==
  pc = "ls" =>
    /\ merit_mem # <<>>
    /\ merit_mem[Len(merit_mem)] = RAdd(fk, RMul(sigma, PrInf))
    /\ RLe(RAdd(fk, RMul(sigma, PrInf)), WindowMax)

\* a*x + b*y for the one-variable vectors and the ng-vectors of a solve
Comb(a, x, b, y) == [i \in DOMAIN x |-> RAdd(RMul(a, x[i]), RMul(b, y[i]))]

\* C22: with max_iter_ls > 0, the step that ends a line search with step
\* length t sets mu to (1-t)*mu + t*qp_DUAL_A and mu_x to
\* (1-t)*mu_x + t*qp_DUAL_X, with the t of xk_new = xk + t*dx.
C22_DualBlend ==
  [][(pc = "ls" /\ pc' = "reeval") =>
       /\ t' = t
       /\ xk' = Comb(One, xk, t, dx)
       /\ mu' = Comb(RSub(One, t), mu, t, qp_DUAL_A)
       /\ mu_x' = Comb(RSub(One, t), mu_x, t, qp_DUAL_X)]_vars

\* a step of length 1/2 has moved zero multipliers half way to the QP duals
C22_Witness ==
  /\ pc = "reeval" /\ max_iter_ls_ > 0 /\ ng_ = 1 /\ t = <<1, 2>>
  /\ qp_DUAL_A = <<R(-2)>> /\ mu = <<R(-1)>>
  /\ qp_DUAL_X = <<One>> /\ mu_x = <<<<1, 2>>>>
  /\ xk = Comb(One, x_old, t, dx) /\ xk # x_old

\* C23: the penalty update of an iteration sets sigma to the maximum of its
\* previous value, 1.01 * |qp_DUAL_X|_inf and 1.01 * |qp_DUAL_A|_inf, so when
\* the merit values of the iteration are computed sigma is at least 1.01
\* times the magnitude of every QP dual returned so far in the solve.
C23_SigmaDominatesDuals ==
  [][pc = "qp" =>
       LET a == RMul(<<101, 100>>, casadi_norm_inf(qp_DUAL_X'))
           b == RMul(<<101, 100>>, casadi_norm_inf(qp_DUAL_A'))
       IN  /\ sigma' \in {sigma, a, b}
           /\ RLe(sigma, sigma') /\ RLe(a, sigma') /\ RLe(b, sigma')
           /\ RLe(RMul(<<101, 100>>, dual_hi'), sigma')
           /\ \/ merit_memsize_ = 0
              \/ merit_mem'[Len(merit_mem')] = RAdd(fk, RMul(sigma', PrInf))]_vars

\* the first QP returned a constraint dual larger than the bound dual
C23_Witness ==
  /\ nqp = 1 /\ ng_ = 1 /\ pc \in {"ls", "full"}
  /\ qp_DUAL_X = <<One>> /\ qp_DUAL_A = <<R(-2)>>
  /\ dual_hi = R(2) /\ sigma = <<101, 50>>

\* C24: at the first check point of a solve (iter = 0, no QP solved yet) the
\* step norm is 0.
C24_FirstStepNormZero ==
  (pc = "check" /\ iter = 0) => casadi_norm_inf(dx) = Zero

\* C25: the bounds of the QP of an iteration are the problem bounds minus the
\* point of linearization, qp_LBX = lbx - xk, qp_UBX = ubx - xk,
\* qp_LBA = lbg - gk, qp_UBA = ubg - gk, with xk and gk as they are before
\* the step; lbx, ubx, lbg, ubg never change.
C25_QPBounds ==
  [][/\ pc = "qp" =>
          /\ qp_LBX' = Comb(One, lbx, RNeg(One), xk)
          /\ qp_UBX' = Comb(One, ubx, RNeg(One), xk)
          /\ qp_LBA' = Comb(One, lbg, RNeg(One), gk)
          /\ qp_UBA' = Comb(One, ubg, RNeg(One), gk)
          /\ xk' = xk /\ gk' = gk
     /\ <<lbx, ubx, lbg, ubg>>' = <<lbx, ubx, lbg, ubg>>]_vars

\* the QP of a constrained solve at xk = 2 (gk = 4) has been formulated
C25_Witness ==
  /\ pc \in {"ls", "full"} /\ ng_ = 1 /\ xk = <<R(2)>> /\ gk = <<R(4)>>
  /\ qp_LBX = <<R(-2)>> /\ qp_UBX = <<Zero>>
  /\ qp_LBA = <<R(-4)>> /\ qp_UBA = <<R(-3)>>

\* gf + J^T*mu + mu_x for the one variable of the model
Lagr(gf_, J_, mu_, mux_) ==
  <<RAdd(RAdd(gf_[1], IF ng_ > 0 THEN RMul(J_[1], mu_[1]) ELSE Zero),
         mux_[1])>>

\* C26: in quasi-Newton mode gLag_old is computed after the multiplier update
\* and before the Jacobian and gradient are re-evaluated: it is
\* gf_old + Jk_old^T * mu_new + mu_x_new; the secant update then gets the
\* points xk_new, x_old and the gradients gLag_new, gLag_old, both with the
\* new multipliers.
C26_SecantPairs ==
  [][(pc = "reeval" /\ ~exact_hessian_) =>
       /\ mu' = mu /\ mu_x' = mu_x
       /\ gLag_old' = Lagr(gf, Jk, mu, mu_x)
       /\ pc' = "check" =>
            /\ gLag' = Lagr(gf', Jk', mu, mu_x)
            /\ Bk'.upd[Len(Bk'.upd)] = <<xk, x_old, gLag', gLag_old'>>]_vars

\* a secant update has been made after a step that changed the multipliers
C26_Witness ==
  /\ pc = "check" /\ ~exact_hessian_ /\ ng_ = 1 /\ iter >= 1
  /\ mu # <<Zero>> /\ mu_x # <<Zero>> /\ xk # x_old
  /\ Bk.upd[Len(Bk.upd)] = <<xk, x_old, gLag, gLag_old>>
  /\ gLag_old = Lagr(nlp_grad_f(x_old), nlp_jac_g(ng_, x_old), mu, mu_x)

\* C27: the callback is called exactly once per check point and nowhere
\* else; when it asks for a stop the status is User_Requested_Stop whatever
\* the other tests would say, and iter_count and the result slots are
\* written from the iterate of that check point.
C27_CallbackAtCheckPoint ==
  /\ has_callback =>
       ncall.cb = IF pc = "start" THEN 0
                  ELSE IF pc \in {"done", "interrupted"} THEN iter + 1
                  ELSE iter
  /\ cb_out = "nonzero" =>
       /\ pc = "done" /\ return_status = "User_Requested_Stop"
       /\ iter_count = iter
       /\ out_f = fk /\ out_x = xk /\ out_lam_g = mu /\ out_lam_x = mu_x
       /\ out_g = gk

\* C28: in quasi-Newton mode the approximation is reset at the end of
\* exactly the iterations whose index is a multiple of lbfgs_memory,
\* whatever the step and the gradients are, and the secant update of such an
\* iteration is applied to the reset matrix; in every other iteration it is
\* applied to the accumulated matrix.
C28_RestartSchedule ==
  [][/\ (pc = "start" /\ pc' = "check" /\ ~exact_hessian_) =>
          Bk' = casadi_bfgs_reset(Hsp_)
     /\ (pc = "reeval" /\ pc' = "check" /\ ~exact_hessian_) =>
          LET u == <<xk, x_old, gLag', gLag_old'>>
          IN  /\ Bk'.base = casadi_bfgs_reset(Hsp_).base
              /\ Bk'.upd = IF iter % lbfgs_memory_ = 0 THEN <<u>>
                           ELSE Append(Bk.upd, u)]_vars

\* two updates have accumulated because the restart period is longer
C28_Witness ==
  /\ ~exact_hessian_ /\ lbfgs_memory_ = 3 /\ pc = "check" /\ iter = 2
  /\ Len(Bk.upd) = 2 /\ Bk.upd[1] # Bk.upd[2]

\* C29: at every check point fk and gf are the objective and its gradient at
\* xk, gk and Jk (ng > 0) the constraints and their Jacobian at xk,
\* gLag = gf + Jk^T*mu + mu_x, and with the exact Hessian Bk is the Hessian
\* of the Lagrangian at (xk, mu), regularized when the option asks for it.
C29_Consistent ==
  pc = "check" =>
    /\ fk = nlp_f(xk)
    /\ gf = nlp_grad_f(xk)
    /\ ng_ > 0 => gk = nlp_g(ng_, xk) /\ Jk = nlp_jac_g(ng_, xk)
    /\ gLag = Lagr(gf, Jk, mu, mu_x)
    /\ exact_hessian_ =>
         LET H == nlp_hess_l(ng_, xk, One, mu)
         IN  /\ Bk.upd = <<>>
             /\ Bk.base = IF regularize_ /\ RLt(H[1], Zero) THEN <<Zero>>
                          ELSE H

\* a check point after a step, with non-zero multipliers and a Hessian that
\* had to be regularized
C29_Witness ==
  /\ pc = "check" /\ iter >= 1 /\ ng_ = 1 /\ exact_hessian_ /\ regularize_
  /\ mu # <<Zero>> /\ mu_x # <<Zero>> /\ reg # Zero /\ Bk.base = <<Zero>>

\* beta multiplied n times into 1, as the line search does it
RECURSIVE BetaPow(_)
BetaPow(n) == IF n <= 0 THEN One ELSE TMul(beta_, BetaPow(n - 1))

\* C30: with max_iter_ls > 0 the search starts at t = 1, every trial that
\* does not end it multiplies t by beta once (failed evaluation or failed
\* Armijo test alike), so a search that ends after k trials ends with
\* t = beta^(k-1); the step then sets x_old to the previous point and xk to
\* x_old + t*dx.
C30_StepLength ==
  [][/\ (pc = "qp" /\ max_iter_ls_ > 0) => t' = One /\ ls_iter' = 0
     /\ (pc = "ls" /\ pc' = "ls") => t' = TMul(beta_, t)
     /\ (pc = "ls" /\ pc' = "reeval") =>
          /\ t' = t
          /\ ls_iter' <= MaxIterLs => t' = BetaPow(ls_iter' - 1)
          /\ x_old' = xk
          /\ xk' = Comb(One, x_old', t', dx)]_vars

\* a search has ended on its second trial, the first one having failed to
\* evaluate
C30_Witness ==
  /\ pc = "reeval" /\ max_iter_ls_ > 0 /\ ls_iter = 2 /\ t = <<1, 2>>
  /\ FgFails(Comb(One, x_old, One, dx))
  /\ xk = Comb(One, x_old, t, dx) /\ xk # x_old

\* C31: when a solve aborts with a fatal evaluation error nothing of the
\* partial solve is published: return_status and iter_count still have the
\* values they had when solve() was entered ("" and the -1 of set_work),
\* and every result slot still holds what it held then.
C31_NothingPublished ==
  pc = "fatal" =>
    /\ return_status = "" /\ iter_count = -1
    /\ out_f = Zero /\ out_x = <<Zero>> /\ out_lam_g = Zeros(ng_)
    /\ out_lam_x = <<Zero>> /\ out_g = Zeros(ng_)

\* the gradient failed after a step to a point away from the slots' content
C31_Witness ==
  /\ pc = "fatal" /\ last_err = "nlp_grad_f" /\ nqp >= 1 /\ iter >= 1
  /\ present = Slots /\ xk # out_x /\ iter_count # iter

\* batches 1..k of the log take fn (resp. an) directions in all
RECURSIVE TakenF(_, _)
TakenF(log, k) == IF k = 0 THEN 0 ELSE TakenF(log, k - 1) + log[k].fn

RECURSIVE TakenA(_, _)
TakenA(log, k) == IF k = 0 THEN 0 ELSE TakenA(log, k - 1) + log[k].an

\* C32: evaluateD evaluates the function at least once even with no
\* direction asked; the batches are consecutive and hold at most max_nfdir
\* and max_nadir directions; no direction is seeded or retrieved twice and
\* on return every direction has been seeded once and its sensitivity
\* retrieved once into its target (a null target is skipped), the forward
\* target holding the sensitivity of its own seed; the output is read once,
\* after the first evaluation; the adjoint sensitivity is added to what the
\* target held; the adjoint seeds are zero on return.
C32_Batches ==
  /\ \A k \in 1..Len(batches) :
       /\ batches[k].fn >= 0 /\ batches[k].fn <= max_nfdir
       /\ batches[k].an >= 0 /\ batches[k].an <= max_nadir
       /\ batches[k].foff = TakenF(batches, k - 1)
       /\ batches[k].aoff = TakenA(batches, k - 1)
       /\ batches[k].foff + batches[k].fn <= nfdir
       /\ batches[k].aoff + batches[k].an <= nadir
  /\ \A d \in 1..nfdir : fset[d] <= 1 /\ fget[d] <= fset[d]
  /\ \A d \in 1..nadir : aset[d] <= 1 /\ aadd[d] <= aset[d]
  /\ res_read_at \in { <<>>, <<1>> }
  /\ \A d \in 1..nadir :
       asens[d] = IF aadd[d] = 1 THEN asens0[d] + fcn_sens(aseed0[d])
                  ELSE asens0[d]
  /\ ev_pc = "done" =>
       /\ n_eval >= 1
       /\ \A d \in 1..nfdir :
            /\ fset[d] = 1
            /\ fget[d] = IF d \in fsens_null THEN 0 ELSE 1
            /\ d \notin fsens_null => fsens[d] = fcn_sens(fseed[d])
       /\ \A d \in 1..nadir :
            /\ aset[d] = 1
            /\ aadd[d] = IF d \in asens_null THEN 0 ELSE 1
            /\ aseed[d] = 0
       /\ res_ok => res_read_at = <<1>> /\ res = fcn_value(fcn_input)
       /\ ~res_ok => res_read_at = <<>> /\ res = 0

\* three forward directions went in batches of two and one, two adjoint
\* directions one at a time, and the call has returned
C32_Witness ==
  /\ ev_pc = "done" /\ nfdir = 3 /\ max_nfdir = 2 /\ nadir = 2
  /\ max_nadir = 1 /\ n_eval = 2 /\ res_ok
  /\ batches[2].foff = 2 /\ batches[2].fn = 1 /\ batches[2].aoff = 1
  /\ asens = <<100 + fcn_sens(11), 100 + fcn_sens(12)>>
  /\ fsens_null = {} /\ asens_null = {}

\* C33: evaluateD terminates for every nfdir, nadir >= 0 and every
\* capacity max_nfdir, max_nadir >= 0 of the function.
C33_Terminates == <>(ev_pc = "done")

====
